---------------------------- MODULE Spec2Model ----------------------------
(***************************************************************************)
(* A model of verify_lsp.py: the framed transport (send_request and        *)
(* read_response) at the level of bytes, and the session driver (main) as  *)
(* a state machine running against a language-server subprocess.           *)
(*                                                                         *)
(* Text is a sequence of Unicode code points, a byte stream a sequence of  *)
(* numbers 0..255.  A decoded JSON value is a tagged record:               *)
(*   [t |-> "null"]            None                                        *)
(*   [t |-> "bool", v |-> b]   True / False                                *)
(*   [t |-> "int",  v |-> n]   int                                         *)
(*   [t |-> "float", v |-> s]  float, kept as its lexeme s                 *)
(*   [t |-> "str",  v |-> s]   str, s a sequence of code points            *)
(*   [t |-> "arr",  v |-> q]   list, q a sequence of values                *)
(*   [t |-> "obj",  v |-> q]   dict, q a sequence of <<key, value>> in     *)
(*                             insertion order, keys (texts) distinct      *)
(***************************************************************************)
EXTENDS Integers, Sequences, FiniteSets, TLC

VARIABLES
    pc,          \* where main (or the transport exercise) stands
    stdin,       \* proc.stdin: every byte written to the subprocess
    stdout,      \* proc.stdout: bytes written by the subprocess, not yet read
    eof,         \* the subprocess has closed its output stream
    resp,        \* the variable resp of main: what the last receive returned
    now,         \* time.time(), in whole time units
    start_time,  \* the variable start_time of main
    outcome,     \* how main stopped
    exit_status, \* the status the harness process exits with
    terminated,  \* proc.terminate() has been called
    sendLog,     \* one record per send_request call: its arguments and the
                 \* span of stdin it wrote
    gotExpected, \* a receive of the wait loop has returned a notification
                 \* whose first diagnostic carries the expected text
    peerLeft,    \* how many more writes the subprocess may perform
    arrived,     \* the subprocess has written a diagnostics notification
                 \* whose list is not empty
    gotQualifying, \* a receive of the wait loop returned such a notification
    fedLog,      \* transport alone: one record per frame put on the input
                 \* stream (the message it carries, where it comes from, the
                 \* lengths of its header block and of the whole frame)
    cut,         \* transport alone: the stream ended after this many bytes
                 \* of its only frame (-1: it was not cut short)
    nread,       \* transport alone: read_response calls that came back
    rstat,       \* how the last call of read_response came back
    rexc         \* the exception it raised, "" when it returned

vars == <<pc, stdin, stdout, eof, resp, now, start_time, outcome, exit_status,
          terminated, sendLog, gotExpected, peerLeft, arrived, gotQualifying,
          fedLog, cut, nread, rstat, rexc>>

\* What main alone reads and writes, and what the transport exercise alone.
mainVars == <<now, start_time, outcome, exit_status, terminated, gotExpected,
              peerLeft, arrived, gotQualifying>>
codecVars == <<fedLog, cut, nread>>

---------------------------------------------------------------------------
(* Values *)

JNull == [t |-> "null"]
JBool(b) == [t |-> "bool", v |-> b]
JInt(n) == [t |-> "int", v |-> n]
JFloat(s) == [t |-> "float", v |-> s]
JStr(s) == [t |-> "str", v |-> s]
JArr(q) == [t |-> "arr", v |-> q]
JObj(q) == [t |-> "obj", v |-> q]

\* F(x), with x worked out once however often F uses it.
Bind(x, F(_)) == CHOOSE r \in {F(a) : a \in {x}} : TRUE
Bind2(x, y, F(_, _)) == CHOOSE r \in {F(a, b) : a \in {x}, b \in {y}} : TRUE

\* key in d, for a dict d.
HasKey(d, key) == \E k \in 1..Len(d.v) : d.v[k][1] = key

\* d[key], for a dict d that has the key.
Get(d, key) == d.v[CHOOSE k \in 1..Len(d.v) : d.v[k][1] = key][2]

\* d[key] = val on a dict given as its sequence of pairs: a new key is
\* appended, an existing key keeps its place and takes the new value.
DictSet(q, key, val) ==
    IF \E k \in 1..Len(q) : q[k][1] = key
    THEN [k \in 1..Len(q) |-> IF q[k][1] = key THEN <<key, val>> ELSE q[k]]
    ELSE Append(q, <<key, val>>)

\* dict(pairs)
RECURSIVE DictOf(_, _)
DictOf(pairs, acc) ==
    IF pairs = <<>> THEN acc
    ELSE Bind2(Tail(pairs), DictSet(acc, pairs[1][1], pairs[1][2]), DictOf)

\* The test of line 80 without its first operand: every value passes.
TruthyAlways(x) == TRUE

\* bool(x): the truth value Python gives a value.
Truthy(x) ==
    CASE x.t = "null" -> FALSE
      [] x.t = "bool" -> x.v
      [] x.t = "int" -> x.v # 0
      [] x.t = "float" -> TRUE
      [] OTHER -> Len(x.v) > 0

\* needle in hay, for two texts: hay has needle as a contiguous part.
Contains(hay, needle) ==
    \E k \in 0..(Len(hay) - Len(needle)) :
        \A j \in 1..Len(needle) : hay[k + j] = needle[j]

---------------------------------------------------------------------------
(* Text and bytes *)

\* The least member of a non-empty set of numbers.
Min(S) == CHOOSE x \in S : \A y \in S : x <= y

\* The first position k of s, from i up to hi, where P(s[k]) holds, or 0.
FirstAt(s, i, hi, P(_)) ==
    Bind(s, LAMBDA t :
        Bind({k \in i..hi : P(t[k])}, LAMBDA S : IF S = {} THEN 0 ELSE Min(S)))

\* ''.join(ss)
RECURSIVE Flatten(_)
Flatten(ss) ==
    IF ss = <<>> THEN <<>>
    ELSE IF Len(ss) = 1 THEN ss[1]
    ELSE Bind2(SubSeq(ss, 1, Len(ss) \div 2),
               SubSeq(ss, (Len(ss) \div 2) + 1, Len(ss)),
               LAMBDA a, b : Flatten(a) \o Flatten(b))

\* str(n) for a number n >= 0: its decimal digits, as code points.
RECURSIVE DecDigits(_)
DecDigits(n) ==
    IF n < 10 THEN <<48 + n>>
    ELSE Bind(n \div 10, LAMBDA m : Append(DecDigits(m), 48 + (n % 10)))

IntToStr(n) == IF n < 0 THEN <<45>> \o DecDigits(0 - n) ELSE DecDigits(n)

HexDigit(d) == IF d < 10 THEN 48 + d ELSE 87 + d

\* '\\u{0:04x}'.format(n)
UEscape(n) ==
    <<92, 117, HexDigit(n \div 4096), HexDigit((n \div 256) % 16),
      HexDigit((n \div 16) % 16), HexDigit(n % 16)>>

\* The UTF-8 bytes of one code point (str.encode('utf-8')).
Utf8Char(c) ==
    IF c < 128 THEN <<c>>
    ELSE IF c < 2048 THEN <<192 + (c \div 64), 128 + (c % 64)>>
    ELSE IF c < 65536
         THEN <<224 + (c \div 4096), 128 + ((c \div 64) % 64), 128 + (c % 64)>>
    ELSE <<240 + (c \div 262144), 128 + ((c \div 4096) % 64),
           128 + ((c \div 64) % 64), 128 + (c % 64)>>

NonAscii(c) == c >= 128

\* str.encode('utf-8'): the text up to its first code point outside ASCII
\* is its own encoding.
RECURSIVE Utf8Encode(_)
Utf8Encode(s) ==
    Bind2(s, FirstAt(s, 1, Len(s), NonAscii), LAMBDA t, q :
        IF q = 0 THEN t
        ELSE SubSeq(t, 1, q - 1) \o Utf8Char(t[q])
             \o Utf8Encode(SubSeq(t, q + 1, Len(t))))

IsCont(b) == b >= 128 /\ b < 192

\* One code point of more than one byte at position q of b, where b1 =
\* b[q], no further than hi: [n, c] with its length and value, n = 0 where
\* the bytes are not UTF-8.
Utf8Multi(b, q, hi, b1) ==
    IF b1 >= 194 /\ b1 < 224
    THEN IF q + 1 <= hi /\ IsCont(b[q + 1])
         THEN [n |-> 2, c |-> (b1 - 192) * 64 + (b[q + 1] - 128)]
         ELSE [n |-> 0, c |-> 0]
    ELSE IF b1 >= 224 /\ b1 < 240
    THEN IF q + 2 <= hi /\ IsCont(b[q + 1]) /\ IsCont(b[q + 2])
         THEN Bind((b1 - 224) * 4096 + (b[q + 1] - 128) * 64 + (b[q + 2] - 128),
                   LAMBDA c : IF c < 2048 \/ (c >= 55296 /\ c < 57344)
                              THEN [n |-> 0, c |-> 0] ELSE [n |-> 3, c |-> c])
         ELSE [n |-> 0, c |-> 0]
    ELSE IF b1 >= 240 /\ b1 < 245
    THEN IF q + 3 <= hi /\ IsCont(b[q + 1]) /\ IsCont(b[q + 2]) /\ IsCont(b[q + 3])
         THEN Bind((b1 - 240) * 262144 + (b[q + 1] - 128) * 4096
                   + (b[q + 2] - 128) * 64 + (b[q + 3] - 128),
                   LAMBDA c : IF c < 65536 \/ c > 1114111
                              THEN [n |-> 0, c |-> 0] ELSE [n |-> 4, c |-> c])
         ELSE [n |-> 0, c |-> 0]
    ELSE [n |-> 0, c |-> 0]

\* bytes.decode('utf-8') of b[i..hi] after the text acc: the code points,
\* or ok = FALSE where Python raises UnicodeDecodeError.
RECURSIVE Utf8DecodeFrom(_, _, _, _)
Utf8DecodeFrom(b, i, hi, acc) ==
    Bind(FirstAt(b, i, hi, NonAscii), LAMBDA q :
        IF q = 0 THEN [ok |-> TRUE, s |-> acc \o SubSeq(b, i, hi)]
        ELSE Bind(Utf8Multi(b, q, hi, b[q]), LAMBDA m :
                 IF m.n = 0 THEN [ok |-> FALSE, s |-> <<>>]
                 ELSE Bind2(q + m.n, acc \o SubSeq(b, i, q - 1) \o <<m.c>>,
                            LAMBDA j, pre : Utf8DecodeFrom(b, j, hi, pre))))

\* bytes.decode('utf-8') of b[i..hi]
Utf8Slice(b0, i0, hi0) ==
    Bind(b0, LAMBDA b : Bind2(i0, hi0, LAMBDA i, hi : Utf8DecodeFrom(b, i, hi, <<>>)))

Utf8Decode(b) == Utf8Slice(b, 1, Len(b))

---------------------------------------------------------------------------
(* json.dumps, with the defaults send_request leaves in place:             *)
(* ensure_ascii=True, separators ", " and ": ".                            *)

\* One code point of a string under ensure_ascii=False, which send_request
\* does not pass: text outside ASCII is written as it is.
EscapeCharRaw(c) ==
    CASE c = 34 -> <<92, 34>>
      [] c = 92 -> <<92, 92>>
      [] c = 8 -> <<92, 98>>
      [] c = 12 -> <<92, 102>>
      [] c = 10 -> <<92, 110>>
      [] c = 13 -> <<92, 114>>
      [] c = 9 -> <<92, 116>>
      [] c < 32 -> UEscape(c)
      [] OTHER -> <<c>>

\* One code point of a string, as the encoder writes it: '"' and '\' and
\* the short control escapes, \uXXXX for everything else outside ' '..'~'
\* (a surrogate pair above U+FFFF).
EscapeChar(c) ==
    CASE c = 34 -> <<92, 34>>
      [] c = 92 -> <<92, 92>>
      [] c = 8 -> <<92, 98>>
      [] c = 12 -> <<92, 102>>
      [] c = 10 -> <<92, 110>>
      [] c = 13 -> <<92, 114>>
      [] c = 9 -> <<92, 116>>
      [] c >= 32 /\ c <= 126 /\ c # 34 /\ c # 92 -> <<c>>
      [] c >= 65536 ->
            UEscape(55296 + (((c - 65536) \div 1024) % 1024))
            \o UEscape(56320 + ((c - 65536) % 1024))
      [] OTHER -> UEscape(c)

Plain(c) == c >= 32 /\ c <= 126 /\ c # 34 /\ c # 92

\* py_encode_basestring_ascii: a text with nothing to escape is written
\* between quotes as it is.
EncodeString(s) ==
    Bind(s, LAMBDA t :
        IF \A k \in 1..Len(t) : Plain(t[k]) THEN <<34>> \o t \o <<34>>
        ELSE <<34>> \o Flatten([k \in 1..Len(t) |-> EscapeChar(t[k])]) \o <<34>>)

\* sep.join(parts)
RECURSIVE Join(_, _)
Join(parts, sep) ==
    IF parts = <<>> THEN <<>>
    ELSE IF Len(parts) = 1 THEN parts[1]
    ELSE parts[1] \o sep \o Bind(Tail(parts), LAMBDA rest : Join(rest, sep))

RECURSIVE Dumps(_)
Dumps(x0) ==
    Bind(x0, LAMBDA x :
    CASE x.t = "null" -> <<110, 117, 108, 108>>
      [] x.t = "bool" ->
            IF x.v THEN <<116, 114, 117, 101>> ELSE <<102, 97, 108, 115, 101>>
      [] x.t = "int" -> IntToStr(x.v)
      [] x.t = "float" -> x.v
      [] x.t = "str" -> EncodeString(x.v)
      [] x.t = "arr" ->
            <<91>> \o Join([k \in 1..Len(x.v) |-> Dumps(x.v[k])], <<44, 32>>)
            \o <<93>>
      [] x.t = "obj" ->
            <<123>>
            \o Join([k \in 1..Len(x.v) |->
                      EncodeString(x.v[k][1]) \o <<58, 32>> \o Dumps(x.v[k][2])],
                    <<44, 32>>)
            \o <<125>>)

---------------------------------------------------------------------------
(* json.loads: the decoder's scanner, position by position.  A result is   *)
(* [ok, v, i]: the value and the position after it, or ok = FALSE where    *)
(* Python raises JSONDecodeError.                                          *)

Fail == [ok |-> FALSE, v |-> JNull, i |-> 0]
Ok(val, next) == [ok |-> TRUE, v |-> val, i |-> next]

IsWs(c) == c \in {32, 9, 10, 13}
IsDigit(c) == c >= 48 /\ c <= 57
IsHex(c) == IsDigit(c) \/ (c >= 97 /\ c <= 102) \/ (c >= 65 /\ c <= 70)
HexVal(c) == IF IsDigit(c) THEN c - 48 ELSE IF c >= 97 THEN c - 87 ELSE c - 55
NotWs(c) == ~IsWs(c)
NotDigit(c) == ~IsDigit(c)

\* s[i:] starts with lit
HasAt(s, i, lit) ==
    /\ i + Len(lit) - 1 <= Len(s)
    /\ \A k \in 1..Len(lit) : s[i + k - 1] = lit[k]

\* The position after the whitespace that starts at i.
SkipWs(s, i) ==
    Bind(FirstAt(s, i, Len(s), NotWs), LAMBDA q : IF q = 0 THEN Len(s) + 1 ELSE q)

\* The position after the digits that start at i.
SkipDigits(s, i) ==
    Bind(FirstAt(s, i, Len(s), NotDigit), LAMBDA q : IF q = 0 THEN Len(s) + 1 ELSE q)

\* int() of the digits s[i..j-1], after the digits worth acc
RECURSIVE DigitsVal(_, _, _, _)
DigitsVal(s, i, j, acc) ==
    IF i >= j THEN acc
    ELSE Bind2(i + 1, acc * 10 + (s[i] - 48), LAMBDA k, a : DigitsVal(s, k, j, a))

\* The four hex digits at i, or -1.
Hex4(s, i) ==
    IF i + 3 <= Len(s) /\ \A k \in 0..3 : IsHex(s[i + k])
    THEN HexVal(s[i]) * 4096 + HexVal(s[i + 1]) * 256 + HexVal(s[i + 2]) * 16
         + HexVal(s[i + 3])
    ELSE -1

\* Where a chunk of string content stops: '"', '\' or a control character.
IsStop(c) == c = 34 \/ c = 92 \/ c < 32

\* The escape whose backslash is at q: [n, c], its length and the code
\* point it stands for, n = 0 where it is not an escape.
ScanEscape(s, q) ==
    IF q + 1 > Len(s) THEN [n |-> 0, c |-> 0]
    ELSE Bind(s[q + 1], LAMBDA e :
    IF e = 117
    THEN Bind(Hex4(s, q + 2), LAMBDA u :
         IF u < 0 THEN [n |-> 0, c |-> 0]
         ELSE IF u >= 55296 /\ u <= 56319 /\ HasAt(s, q + 6, <<92, 117>>)
         THEN Bind(Hex4(s, q + 8), LAMBDA u2 :
              IF u2 < 0 THEN [n |-> 0, c |-> 0]
              ELSE IF u2 >= 56320 /\ u2 <= 57343
              THEN [n |-> 12, c |-> 65536 + (u - 55296) * 1024 + (u2 - 56320)]
              ELSE [n |-> 6, c |-> u])
         ELSE [n |-> 6, c |-> u])
    ELSE IF e \in {34, 92, 47} THEN [n |-> 2, c |-> e]
    ELSE IF e = 98 THEN [n |-> 2, c |-> 8]
    ELSE IF e = 102 THEN [n |-> 2, c |-> 12]
    ELSE IF e = 110 THEN [n |-> 2, c |-> 10]
    ELSE IF e = 114 THEN [n |-> 2, c |-> 13]
    ELSE IF e = 116 THEN [n |-> 2, c |-> 9]
    ELSE [n |-> 0, c |-> 0])

\* scanstring, strict: i is the position after the opening quote, acc the
\* content read so far.
RECURSIVE ScanString(_, _, _)
ScanString(s, i, acc) ==
    Bind(FirstAt(s, i, Len(s), IsStop), LAMBDA q :
        IF q = 0 THEN Fail
        ELSE IF s[q] = 34 THEN Ok(JStr(acc \o SubSeq(s, i, q - 1)), q + 1)
        ELSE IF s[q] < 32 THEN Fail
        ELSE Bind(ScanEscape(s, q), LAMBDA e :
                 IF e.n = 0 THEN Fail
                 ELSE Bind2(q + e.n, acc \o SubSeq(s, i, q - 1) \o <<e.c>>,
                            LAMBDA j, pre : ScanString(s, j, pre))))

\* NUMBER_RE at i: (-?(?:0|[1-9]\d*))(\.\d+)?([eE][-+]?\d+)?
\* d0 is the position of the first digit, d1 the end of the integer part,
\* f1 the end of the fraction, e1 the end of the exponent.
ScanNumberFrom(s, i, d0) ==
    IF ~(d0 <= Len(s) /\ IsDigit(s[d0])) THEN Fail
    ELSE Bind(IF s[d0] = 48 THEN d0 + 1 ELSE SkipDigits(s, d0), LAMBDA d1 :
         Bind(IF d1 + 1 <= Len(s) /\ s[d1] = 46 /\ IsDigit(s[d1 + 1])
              THEN SkipDigits(s, d1 + 1) ELSE d1, LAMBDA f1 :
         Bind(IF f1 + 1 <= Len(s) /\ s[f1] \in {101, 69} /\ s[f1 + 1] \in {43, 45}
              THEN f1 + 2 ELSE f1 + 1, LAMBDA x0 :
         Bind(IF f1 <= Len(s) /\ s[f1] \in {101, 69} /\ x0 <= Len(s)
                 /\ IsDigit(s[x0])
              THEN SkipDigits(s, x0) ELSE f1, LAMBDA e1 :
         IF e1 = d1
         THEN Ok(JInt(IF d0 > i THEN 0 - DigitsVal(s, d0, d1, 0)
                      ELSE DigitsVal(s, d0, d1, 0)), d1)
         ELSE Ok(JFloat(SubSeq(s, i, e1 - 1)), e1)))))

ScanNumber(s, i) ==
    ScanNumberFrom(s, i, IF i <= Len(s) /\ s[i] = 45 THEN i + 1 ELSE i)

L_null == <<110, 117, 108, 108>>
L_true == <<116, 114, 117, 101>>
L_false == <<102, 97, 108, 115, 101>>
L_NaN == <<78, 97, 78>>
L_Infinity == <<73, 110, 102, 105, 110, 105, 116, 121>>

RECURSIVE ScanOnce(_, _)
RECURSIVE ScanMembers(_, _, _)
RECURSIVE ScanElements(_, _, _)

\* After a key's opening quote at i - 1: the key and the ':' after it.
\* [ok, v, i] with the key as v and the position of the value as i.
ScanKey(s, i) ==
    Bind(ScanString(s, i, <<>>), LAMBDA k :
        IF ~k.ok THEN Fail
        ELSE Bind(SkipWs(s, k.i), LAMBDA c :
                 IF c <= Len(s) /\ s[c] = 58 THEN Ok(k.v.v, SkipWs(s, c + 1))
                 ELSE Fail))

\* After a value that ends before i, in a container closed by the code
\* point close: [ok, v, i] with v = TRUE where the container ends (i is the
\* position after it), v = FALSE after a ',' (i is where the next item
\* starts).
ScanSep(s, i, close) ==
    Bind(SkipWs(s, i), LAMBDA n :
        IF n > Len(s) THEN Fail
        ELSE IF s[n] = close THEN Ok(TRUE, n + 1)
        ELSE IF s[n] = 44 THEN Ok(FALSE, SkipWs(s, n + 1))
        ELSE Fail)

\* One member of an object, after the opening quote of its key at i - 1:
\* [ok, v, i] with v = <<key, value, last>>.
ScanMember(s, i) ==
    Bind(ScanKey(s, i), LAMBDA k :
        IF ~k.ok THEN Fail
        ELSE Bind(ScanOnce(s, k.i), LAMBDA val :
                 IF ~val.ok THEN Fail
                 ELSE Bind(ScanSep(s, val.i, 125), LAMBDA sep :
                          IF ~sep.ok THEN Fail
                          ELSE IF sep.v THEN Ok(<<k.v, val.v, TRUE>>, sep.i)
                          ELSE IF sep.i <= Len(s) /\ s[sep.i] = 34
                          THEN Ok(<<k.v, val.v, FALSE>>, sep.i + 1)
                          ELSE Fail)))

\* JSONObject with the pairs acc read so far, after the opening quote of
\* the next key at i - 1: key, ':', value, then ',' and another key, or '}'.
ScanMembers(s, i, acc) ==
    Bind(ScanMember(s, i), LAMBDA m :
        IF ~m.ok THEN Fail
        ELSE IF m.v[3] THEN Ok(JObj(DictOf(Append(acc, <<m.v[1], m.v[2]>>), <<>>)), m.i)
        ELSE ScanMembers(s, m.i, Append(acc, <<m.v[1], m.v[2]>>)))

\* One element of an array at i: [ok, v, i] with v = <<value, last>>.
ScanElement(s, i) ==
    Bind(ScanOnce(s, i), LAMBDA val :
        IF ~val.ok THEN Fail
        ELSE Bind(ScanSep(s, val.i, 93), LAMBDA sep :
                 IF ~sep.ok THEN Fail ELSE Ok(<<val.v, sep.v>>, sep.i)))

\* JSONArray with the elements acc read so far, the next one at i.
ScanElements(s, i, acc) ==
    Bind(ScanElement(s, i), LAMBDA e :
        IF ~e.ok THEN Fail
        ELSE IF e.v[2] THEN Ok(JArr(Append(acc, e.v[1])), e.i)
        ELSE ScanElements(s, e.i, Append(acc, e.v[1])))

\* What is neither a string, an object nor an array: a literal or a number.
ScanAtom(s, i) ==
    IF HasAt(s, i, L_null) THEN Ok(JNull, i + 4)
    ELSE IF HasAt(s, i, L_true) THEN Ok(JBool(TRUE), i + 4)
    ELSE IF HasAt(s, i, L_false) THEN Ok(JBool(FALSE), i + 5)
    ELSE Bind(ScanNumber(s, i), LAMBDA num :
    IF num.ok THEN num
    ELSE IF HasAt(s, i, L_NaN) THEN Ok(JFloat(L_NaN), i + 3)
    ELSE IF HasAt(s, i, L_Infinity) THEN Ok(JFloat(L_Infinity), i + 8)
    ELSE IF HasAt(s, i, <<45>> \o L_Infinity)
    THEN Ok(JFloat(<<45>> \o L_Infinity), i + 9)
    ELSE Fail)

\* scan_once: the value that starts at position i.
ScanOnce(s, i) ==
    IF i > Len(s) THEN Fail
    ELSE IF s[i] = 34 THEN ScanString(s, i + 1, <<>>)
    ELSE IF s[i] = 123
    THEN Bind(SkipWs(s, i + 1), LAMBDA q :
         IF q > Len(s) THEN Fail
         ELSE IF s[q] = 125 THEN Ok(JObj(<<>>), q + 1)
         ELSE IF s[q] = 34 THEN ScanMembers(s, q + 1, <<>>)
         ELSE Fail)
    ELSE IF s[i] = 91
    THEN Bind(SkipWs(s, i + 1), LAMBDA q :
         IF q <= Len(s) /\ s[q] = 93 THEN Ok(JArr(<<>>), q + 1)
         ELSE ScanElements(s, q, <<>>))
    ELSE ScanAtom(s, i)

\* json.loads(s): one value between optional whitespace, and nothing else.
Loads(s0) ==
    Bind(s0, LAMBDA s :
        Bind(ScanOnce(s, SkipWs(s, 1)), LAMBDA r :
            IF r.ok /\ SkipWs(s, r.i) = Len(s) + 1 THEN r ELSE Fail))

---------------------------------------------------------------------------
(* send_request *)

S_jsonrpc == <<106, 115, 111, 110, 114, 112, 99>>                \* jsonrpc
S_2_0 == <<50, 46, 48>>                                          \* 2.0
S_method == <<109, 101, 116, 104, 111, 100>>                     \* method
S_params == <<112, 97, 114, 97, 109, 115>>                       \* params
S_id == <<105, 100>>                                             \* id
S_ContentLength ==                                               \* Content-Length
    <<67, 111, 110, 116, 101, 110, 116, 45, 76, 101, 110, 103, 116, 104>>
CRLF == <<13, 10>>

\* The dict content with the identifier numbered by the calls made so far
\* in place of the one given.
ContentNumbered(method, params, id) ==
    LET base == <<<<S_jsonrpc, JStr(S_2_0)>>, <<S_method, JStr(method)>>,
                  <<S_params, params>>>>
    IN  JObj(IF id # JNull THEN DictSet(base, S_id, JInt(Len(sendLog) + 1))
             ELSE base)

\* The dict content of send_request: id is JNull for id=None.
Content(method, params, id) ==
    LET base == <<<<S_jsonrpc, JStr(S_2_0)>>, <<S_method, JStr(method)>>,
                  <<S_params, params>>>>
    IN  JObj(IF id # JNull THEN DictSet(base, S_id, id) ELSE base)

\* f"Content-Length: {len(body)}\r\n\r\n{body}": len counts code points.
Message(body) ==
    S_ContentLength \o <<58, 32>> \o IntToStr(Len(body)) \o CRLF \o CRLF \o body

\* The bytes one call of send_request writes to proc.stdin.
Frame(method, params, id) ==
    Utf8Encode(Message(Dumps(Content(method, params, id))))

---------------------------------------------------------------------------
(* read_response *)

IsLF(c) == c = 10
IsColon(c) == c = 58

\* The position of the first line feed of b at or after i, or 0.
FindLF(b, i) == FirstAt(b, i, Len(b), IsLF)

\* The position of the first ':' of a text, or 0.
FindColon(s) == FirstAt(s, 1, Len(s), IsColon)

\* What str.strip() takes away (the whitespace below U+0100).
IsSpace(c) == c \in {9, 10, 11, 12, 13, 28, 29, 30, 31, 32, 133, 160}
NotSpace(c) == ~IsSpace(c)

\* s.strip(): from the first to the last code point that is not whitespace.
Strip(s0) ==
    Bind(s0, LAMBDA s :
        Bind({k \in 1..Len(s) : NotSpace(s[k])}, LAMBDA S :
            IF S = {} THEN <<>>
            ELSE SubSeq(s, Min(S), CHOOSE x \in S : \A y \in S : y <= x)))

\* int(s) for a stripped text: an optional sign and decimal digits; ok =
\* FALSE where Python raises ValueError.
PyInt(s0) ==
    Bind2(s0, IF s0 # <<>> /\ s0[1] \in {43, 45} THEN 2 ELSE 1, LAMBDA s, d0 :
        IF d0 <= Len(s) /\ \A k \in d0..Len(s) : IsDigit(s[k])
        THEN [ok |-> TRUE,
              n |-> IF s[1] = 45 THEN 0 - DigitsVal(s, d0, Len(s) + 1, 0)
                    ELSE DigitsVal(s, d0, Len(s) + 1, 0)]
        ELSE [ok |-> FALSE, n |-> 0])

\* What read_response does with a stream: st is "return" (v is the value
\* returned, JNull for None), "raise" (exc names the exception) or "block"
\* (the call is still waiting for bytes); i is the position of the first
\* byte it has not consumed.
Returned(val, next) == [st |-> "return", v |-> val, exc |-> "", i |-> next]
Raised(e, next) == [st |-> "raise", v |-> JNull, exc |-> e, i |-> next]
Blocked == [st |-> "block", v |-> JNull, exc |-> "", i |-> 0]

\* 'Content-Length' in headers
HasLength(headers) == \E k \in 1..Len(headers) : headers[k][1] = S_ContentLength

\* One pass of the header loop at position i (lines 23-27): readline,
\* decode, the test of line 24, split and strip.  [st, h, i]: st is "block",
\* "raise", "break" (line 25) or "header" with h = <<key, value>>; i is the
\* position after the line.  readline returns a line with its line feed,
\* or what is left when the stream has ended.
ReadHeader(b, ended, i) ==
    Bind(FindLF(b, i), LAMBDA lf :
    IF lf = 0 /\ ~ended THEN [st |-> "block", h |-> <<>>, exc |-> "", i |-> 0]
    ELSE Bind(IF lf = 0 THEN Len(b) ELSE lf, LAMBDA hi :
         Bind(Utf8Slice(b, i, hi), LAMBDA line :
    IF ~line.ok
    THEN [st |-> "raise", h |-> <<>>, exc |-> "UnicodeDecodeError", i |-> hi + 1]
    ELSE IF line.s = <<>> \/ line.s = CRLF
    THEN [st |-> "break", h |-> <<>>, exc |-> "", i |-> hi + 1]
    ELSE Bind(FindColon(line.s), LAMBDA c :
    IF c = 0 THEN [st |-> "raise", h |-> <<>>, exc |-> "ValueError", i |-> hi + 1]
    ELSE [st |-> "header", exc |-> "", i |-> hi + 1,
          h |-> <<Strip(SubSeq(line.s, 1, c - 1)),
                  Strip(SubSeq(line.s, c + 1, Len(line.s)))>>]))))

\* The header loop (lines 22-27) from position i with the headers read so
\* far: [st, headers, i], st "block", "raise" or "break".
RECURSIVE HeaderLoop(_, _, _, _)
HeaderLoop(b, ended, i, headers) ==
    Bind(ReadHeader(b, ended, i), LAMBDA r :
        IF r.st = "header"
        THEN HeaderLoop(b, ended, r.i, DictSet(headers, r.h[1], r.h[2]))
        ELSE [st |-> r.st, headers |-> headers, exc |-> r.exc, i |-> r.i])

\* Lines 29-32 and proc.stdout.read(length) at position i, with one byte
\* less read than the header asks for.
BodySpanShort(b, ended, i, headers) ==
    IF ~HasLength(headers) THEN [st |-> "none", lo |-> i, hi |-> i - 1]
    ELSE Bind(PyInt(Get(JObj(headers), S_ContentLength)), LAMBDA length :
        IF ~length.ok THEN [st |-> "raise", lo |-> i, hi |-> i - 1]
        ELSE IF length.n >= 1 /\ Len(b) - i + 1 >= length.n - 1
        THEN [st |-> "read", lo |-> i, hi |-> i + length.n - 2]
        ELSE IF ended THEN [st |-> "read", lo |-> i, hi |-> Len(b)]
        ELSE [st |-> "block", lo |-> i, hi |-> i - 1])

\* Lines 29-32 and proc.stdout.read(length) at position i: [st, lo, hi]
\* with st "none" (no length field: return None), "raise" (int fails),
\* "block", or "read" with the span of the bytes read: length bytes, fewer
\* only where the stream ends before, and everything up to the end of the
\* stream for a negative length.
BodySpan(b, ended, i, headers) ==
    IF ~HasLength(headers) THEN [st |-> "none", lo |-> i, hi |-> i - 1]
    ELSE Bind(PyInt(Get(JObj(headers), S_ContentLength)), LAMBDA length :
        IF ~length.ok THEN [st |-> "raise", lo |-> i, hi |-> i - 1]
        ELSE IF length.n >= 0 /\ Len(b) - i + 1 >= length.n
        THEN [st |-> "read", lo |-> i, hi |-> i + length.n - 1]
        ELSE IF ended THEN [st |-> "read", lo |-> i, hi |-> Len(b)]
        ELSE [st |-> "block", lo |-> i, hi |-> i - 1])

\* What read_response reads before it decodes a body: the header loop,
\* then the body.  [st, lo, hi, exc].
ReadFrame(b, ended) ==
    Bind(HeaderLoop(b, ended, 1, <<>>), LAMBDA h :
        IF h.st = "block" THEN [st |-> "block", lo |-> 0, hi |-> 0, exc |-> ""]
        ELSE IF h.st = "raise"
        THEN [st |-> "raise", lo |-> h.i, hi |-> h.i - 1, exc |-> h.exc]
        ELSE Bind(BodySpan(b, ended, h.i, h.headers), LAMBDA s :
                 [st |-> s.st, lo |-> s.lo, hi |-> s.hi, exc |-> "ValueError"]))

\* body.decode('utf-8') of the bytes read (line 33): [ok, s].
BodyText(b, f) ==
    IF f.st = "read" THEN Utf8Slice(b, f.lo, f.hi) ELSE [ok |-> FALSE, s |-> <<>>]

\* read_response with a body that does not decode answered by None.
ReadResponseLenient(b0, ended) ==
    Bind(b0, LAMBDA b :
    Bind(ReadFrame(b, ended), LAMBDA f :
    Bind(BodyText(b, f), LAMBDA text :
        CASE f.st = "block" -> Blocked
          [] f.st = "raise" -> Raised(f.exc, f.hi + 1)
          [] f.st = "none" -> Returned(JNull, f.lo)
          [] f.st = "read" /\ ~text.ok -> Returned(JNull, f.hi + 1)
          [] OTHER -> Bind(Loads(text.s), LAMBDA r :
                          IF r.ok THEN Returned(r.v, f.hi + 1)
                          ELSE Returned(JNull, f.hi + 1)))))

\* read_response on the unread bytes b of a stream that has ended or not.
ReadResponse(b0, ended) ==
    Bind(b0, LAMBDA b :
    Bind(ReadFrame(b, ended), LAMBDA f :
    Bind(BodyText(b, f), LAMBDA text :
        CASE f.st = "block" -> Blocked
          [] f.st = "raise" -> Raised(f.exc, f.hi + 1)
          [] f.st = "none" -> Returned(JNull, f.lo)
          [] f.st = "read" /\ ~text.ok -> Raised("UnicodeDecodeError", f.hi + 1)
          [] OTHER -> Bind(Loads(text.s), LAMBDA r :
                          IF r.ok THEN Returned(r.v, f.hi + 1)
                          ELSE Raised("JSONDecodeError", f.hi + 1)))))

---------------------------------------------------------------------------
(* main: the texts and payloads of the session *)

S_initialize ==   \* initialize
    <<105, 110, 105, 116, 105, 97, 108, 105, 122, 101>>
S_initialized ==   \* initialized
    <<105, 110, 105, 116, 105, 97, 108, 105, 122, 101, 100>>
S_didOpen ==   \* textDocument/didOpen
    <<116, 101, 120, 116, 68, 111, 99, 117, 109, 101, 110, 116, 47, 100,
      105, 100, 79, 112, 101, 110>>
S_publishDiagnostics ==   \* textDocument/publishDiagnostics
    <<116, 101, 120, 116, 68, 111, 99, 117, 109, 101, 110, 116, 47, 112,
      117, 98, 108, 105, 115, 104, 68, 105, 97, 103, 110, 111, 115, 116,
      105, 99, 115>>
S_expected ==   \* Unknown word: Helllo
    <<85, 110, 107, 110, 111, 119, 110, 32, 119, 111, 114, 100, 58, 32, 72,
      101, 108, 108, 108, 111>>
S_processId ==   \* processId
    <<112, 114, 111, 99, 101, 115, 115, 73, 100>>
S_rootUri ==   \* rootUri
    <<114, 111, 111, 116, 85, 114, 105>>
S_capabilities ==   \* capabilities
    <<99, 97, 112, 97, 98, 105, 108, 105, 116, 105, 101, 115>>
S_textDocument ==   \* textDocument
    <<116, 101, 120, 116, 68, 111, 99, 117, 109, 101, 110, 116>>
S_uri ==   \* uri
    <<117, 114, 105>>
S_file_uri ==   \* file:///test.lex
    <<102, 105, 108, 101, 58, 47, 47, 47, 116, 101, 115, 116, 46, 108, 101,
      120>>
S_languageId ==   \* languageId
    <<108, 97, 110, 103, 117, 97, 103, 101, 73, 100>>
S_lex ==   \* lex
    <<108, 101, 120>>
S_version ==   \* version
    <<118, 101, 114, 115, 105, 111, 110>>
S_text ==   \* text
    <<116, 101, 120, 116>>
S_Helllo_World ==   \* Helllo World
    <<72, 101, 108, 108, 108, 111, 32, 87, 111, 114, 108, 100>>
S_diagnostics ==   \* diagnostics
    <<100, 105, 97, 103, 110, 111, 115, 116, 105, 99, 115>>
S_message ==   \* message
    <<109, 101, 115, 115, 97, 103, 101>>

\* The params of the three requests main sends (lines 51-55, 62, 66-73).
InitializeParams ==
    JObj(<<<<S_processId, JNull>>, <<S_rootUri, JNull>>,
           <<S_capabilities, JObj(<<>>)>>>>)
InitializedParams == JObj(<<>>)
DidOpenParams ==
    JObj(<<<<S_textDocument,
             JObj(<<<<S_uri, JStr(S_file_uri)>>, <<S_languageId, JStr(S_lex)>>,
                    <<S_version, JInt(1)>>, <<S_text, JStr(S_Helllo_World)>>>>)>>>>)

\* The ceiling of the wait loop, in time units (line 78).
Timeout == 5

---------------------------------------------------------------------------
(* main: what the wait loop does with a received value (lines 80-92).      *)
(* Python's operators on a value of any type: [ok, v], ok = FALSE where    *)
(* the operator raises (TypeError, KeyError, IndexError).                  *)

Val(x) == [ok |-> TRUE, v |-> x]
Err == [ok |-> FALSE, v |-> JNull]

\* text in x
In(text, x) ==
    CASE x.t = "obj" -> Val(JBool(HasKey(x, text)))
      [] x.t = "str" -> Val(JBool(Contains(x.v, text)))
      [] x.t = "arr" -> Val(JBool(\E k \in 1..Len(x.v) : x.v[k] = JStr(text)))
      [] OTHER -> Err

\* x[text]
Subscript(x, text) ==
    IF x.t = "obj" /\ HasKey(x, text) THEN Val(Get(x, text)) ELSE Err

\* x[0]
First(x) ==
    CASE x.t = "arr" /\ Len(x.v) > 0 -> Val(x.v[1])
      [] x.t = "str" /\ Len(x.v) > 0 -> Val(JStr(<<x.v[1]>>))
      [] OTHER -> Err

\* len(x)
PyLen(x) ==
    IF x.t \in {"arr", "str", "obj"} THEN [ok |-> TRUE, v |-> Len(x.v)]
    ELSE [ok |-> FALSE, v |-> 0]

\* Line 80: resp and 'method' in resp and resp['method'] == '...'
IsPublish(r) ==
    IF ~Truthy(r) THEN Val(JBool(FALSE))
    ELSE LET has == In(S_method, r) IN
         IF ~has.ok THEN Err
         ELSE IF ~has.v.v THEN Val(JBool(FALSE))
         ELSE LET m == Subscript(r, S_method) IN
              IF ~m.ok THEN Err
              ELSE Val(JBool(m.v = JStr(S_publishDiagnostics)))

\* Lines 82-92 with the last diagnostic judged instead of the first.
JudgeLast(r) ==
    LET p == Subscript(r, S_params)
        d == IF p.ok THEN Subscript(p.v, S_diagnostics) ELSE Err
        n == IF d.ok THEN PyLen(d.v) ELSE [ok |-> FALSE, v |-> 0]
    IN  IF ~n.ok THEN "raise"
        ELSE IF ~(n.v > 0) THEN "continue"
        ELSE LET f == IF d.v.t = "arr" THEN Val(d.v.v[Len(d.v.v)]) ELSE First(d.v)
                 msg == IF f.ok THEN Subscript(f.v, S_message) ELSE Err
                 hit == IF msg.ok THEN In(S_expected, msg.v) ELSE Err
             IN  IF ~hit.ok THEN "raise"
                 ELSE IF hit.v.v THEN "success" ELSE "mismatch"

\* Lines 82-92 where an unexpected first diagnostic does not end the wait:
\* the loop goes on for a better one.
JudgeLenient(r) ==
    LET p == Subscript(r, S_params)
        d == IF p.ok THEN Subscript(p.v, S_diagnostics) ELSE Err
        n == IF d.ok THEN PyLen(d.v) ELSE [ok |-> FALSE, v |-> 0]
    IN  IF ~n.ok THEN "raise"
        ELSE IF ~(n.v > 0) THEN "continue"
        ELSE LET f == First(d.v)
                 msg == IF f.ok THEN Subscript(f.v, S_message) ELSE Err
                 hit == IF msg.ok THEN In(S_expected, msg.v) ELSE Err
             IN  IF ~hit.ok THEN "raise"
                 ELSE IF hit.v.v THEN "success" ELSE "continue"

\* Lines 82-92 for a diagnostics notification r: "continue" (the list is
\* empty), "success", "mismatch", or "raise".
Judge(r) ==
    LET p == Subscript(r, S_params)
        d == IF p.ok THEN Subscript(p.v, S_diagnostics) ELSE Err
        n == IF d.ok THEN PyLen(d.v) ELSE [ok |-> FALSE, v |-> 0]
    IN  IF ~n.ok THEN "raise"
        ELSE IF ~(n.v > 0) THEN "continue"
        ELSE LET f == First(d.v)
                 msg == IF f.ok THEN Subscript(f.v, S_message) ELSE Err
                 hit == IF msg.ok THEN In(S_expected, msg.v) ELSE Err
             IN  IF ~hit.ok THEN "raise"
                 ELSE IF hit.v.v THEN "success" ELSE "mismatch"

\* One pass of the loop body on the value a receive returned.
Evaluate(r) ==
    LET pub == IsPublish(r) IN
    IF ~pub.ok THEN "raise"
    ELSE IF ~pub.v.v THEN "continue"
    ELSE Judge(r)

---------------------------------------------------------------------------
(* The subprocess: what it may write to its output stream *)

S_result ==   \* result
    <<114, 101, 115, 117, 108, 116>>
S_unexpected ==   \* Unknown word: Foo
    <<85, 110, 107, 110, 111, 119, 110, 32, 119, 111, 114, 100, 58, 32, 70,
      111, 111>>

\* How many writes the subprocess performs at most in a session, and in a
\* session followed to its end under fairness.
MaxPeerWrites == 3
MaxFairWrites == 2
\* What the clock reads when main starts, and how far it runs past the
\* ceiling of the wait loop.
Epoch == 3
MaxOver == 1

\* A frame as a peer writes it: the length field counts the body's bytes.
PeerFrame(body) ==
    Utf8Encode(S_ContentLength \o <<58, 32>> \o IntToStr(Len(Utf8Encode(body)))
               \o CRLF \o CRLF \o body)

Notification(method, params) ==
    JObj(<<<<S_jsonrpc, JStr(S_2_0)>>, <<S_method, JStr(method)>>,
           <<S_params, params>>>>)
Diagnostic(text) == JObj(<<<<S_message, JStr(text)>>>>)
Publish(diags) ==
    Notification(S_publishDiagnostics, JObj(<<<<S_diagnostics, JArr(diags)>>>>))

\* The reply to initialize.
M_response ==
    JObj(<<<<S_jsonrpc, JStr(S_2_0)>>, <<S_id, JInt(1)>>,
           <<S_result, JObj(<<>>)>>>>)
\* Diagnostics: none; the expected one (inside a longer text); an unexpected
\* one first and the expected one second.
M_empty == Publish(<<>>)
M_expected == Publish(<<Diagnostic(S_expected \o <<33>>)>>)
M_unexpected == Publish(<<Diagnostic(S_unexpected), Diagnostic(S_expected)>>)
\* A diagnostics notification that has no params.
M_noparams ==
    JObj(<<<<S_jsonrpc, JStr(S_2_0)>>, <<S_method, JStr(S_publishDiagnostics)>>>>)

F_response == PeerFrame(Dumps(M_response))
F_empty == PeerFrame(Dumps(M_empty))
F_expected == PeerFrame(Dumps(M_expected))
F_unexpected == PeerFrame(Dumps(M_unexpected))
F_noparams == PeerFrame(Dumps(M_noparams))
\* A body of the declared length that is not JSON: {"jsonrpc
F_badjson == PeerFrame(SubSeq(Dumps(M_empty), 1, 9))
\* A header block with no length field: X: 1, blank line.
F_nolength == <<88, 58, 32, 49>> \o CRLF \o CRLF
\* A header line without a colon: oops
F_nocolon == <<111, 111, 112, 115>> \o CRLF

PeerFrames ==
    {F_response, F_empty, F_expected, F_unexpected, F_noparams, F_badjson,
     F_nolength, F_nocolon}

\* A diagnostics notification whose list is not empty.
IsQualifyingNotification(x) ==
    /\ x.t = "obj" /\ HasKey(x, S_method)
    /\ Get(x, S_method) = JStr(S_publishDiagnostics)
    /\ HasKey(x, S_params) /\ Get(x, S_params).t = "obj"
    /\ HasKey(Get(x, S_params), S_diagnostics)
    /\ Get(Get(x, S_params), S_diagnostics).t = "arr"
    /\ Len(Get(Get(x, S_params), S_diagnostics).v) > 0

\* The notifications that decide a session with success: a diagnostics
\* notification whose list is not empty and whose first entry's message
\* contains the expected text.
IsExpectedNotification(x) ==
    /\ x.t = "obj" /\ HasKey(x, S_method)
    /\ Get(x, S_method) = JStr(S_publishDiagnostics)
    /\ HasKey(x, S_params) /\ Get(x, S_params).t = "obj"
    /\ HasKey(Get(x, S_params), S_diagnostics)
    /\ LET d == Get(Get(x, S_params), S_diagnostics) IN
       /\ d.t = "arr" /\ Len(d.v) > 0
       /\ d.v[1].t = "obj" /\ HasKey(d.v[1], S_message)
       /\ Get(d.v[1], S_message).t = "str"
       /\ Contains(Get(d.v[1], S_message).v, S_expected)

---------------------------------------------------------------------------
(* The session: main against the subprocess *)

Init ==
    /\ pc = "send_initialize"
    /\ stdin = <<>>
    /\ stdout = <<>>
    /\ eof = FALSE
    /\ resp = JNull
    /\ now = Epoch
    /\ start_time = 0
    /\ outcome = "running"
    /\ exit_status = -1
    /\ terminated = FALSE
    /\ sendLog = <<>>
    /\ gotExpected = FALSE
    /\ peerLeft = MaxPeerWrites
    /\ arrived = FALSE
    /\ gotQualifying = FALSE
    /\ fedLog = <<>>
    /\ cut = -1
    /\ nread = 0
    /\ rstat = "none"
    /\ rexc = ""

\* send_request(proc, method, params, id): write the frame, flush.
SendRequest(method, params, id) ==
    \E f \in {Frame(method, params, id)} :
    /\ stdin' = stdin \o f
    /\ sendLog' = Append(sendLog, [method |-> method, params |-> params, id |-> id,
                                   lo |-> Len(stdin) + 1, hi |-> Len(stdin) + Len(f)])

\* An exception nothing catches: the traceback, exit status 1.
Crash ==
    /\ pc' = "done"
    /\ outcome' = "error"
    /\ exit_status' = 1
    /\ UNCHANGED terminated

\* The same with sys.exit(0) on every path.
FinishZero(how, status) ==
    /\ pc' = "done"
    /\ outcome' = how
    /\ exit_status' = 0
    /\ terminated' = TRUE

\* Lines 86-88, 90-92, 94-96: the report, proc.terminate(), sys.exit.
Finish(how, status) ==
    /\ pc' = "done"
    /\ outcome' = how
    /\ exit_status' = status
    /\ terminated' = TRUE

\* Lines 50-55
SendInitialize ==
    /\ pc = "send_initialize"
    /\ SendRequest(S_initialize, InitializeParams, JInt(1))
    /\ pc' = "read_initialize"
    /\ UNCHANGED <<stdout, eof, resp, now, start_time, outcome, exit_status,
                   terminated, gotExpected, peerLeft, arrived,
                   gotQualifying, rstat, rexc, codecVars>>

\* Lines 58-59 with the loop body of lines 80-92 applied to the reply.
ReadInitializeEvaluating ==
    /\ pc = "read_initialize"
    /\ \E r \in {ReadResponse(stdout, eof)} :
       /\ r.st # "block"
       /\ stdout' = SubSeq(stdout, r.i, Len(stdout))
       /\ rstat' = r.st
       /\ rexc' = r.exc
       /\ IF r.st = "raise"
          THEN Crash /\ UNCHANGED resp
          ELSE /\ resp' = r.v
               /\ \E e \in {Evaluate(r.v)} :
                  CASE e = "continue" ->
                         /\ pc' = "send_initialized"
                         /\ UNCHANGED <<outcome, exit_status, terminated>>
                    [] e = "success" -> Finish("success", 0)
                    [] e = "mismatch" -> Finish("mismatch", 1)
                    [] e = "raise" -> Crash
    /\ UNCHANGED <<stdin, eof, now, start_time, sendLog, gotExpected, peerLeft,
                   arrived, gotQualifying, codecVars>>

\* Lines 58-59: one receive, whose result is only printed.
ReadInitialize ==
    /\ pc = "read_initialize"
    /\ \E r \in {ReadResponse(stdout, eof)} :
       /\ r.st # "block"
       /\ stdout' = SubSeq(stdout, r.i, Len(stdout))
       /\ rstat' = r.st
       /\ rexc' = r.exc
       /\ IF r.st = "raise"
          THEN Crash /\ UNCHANGED resp
          ELSE /\ resp' = r.v
               /\ pc' = "send_initialized"
               /\ UNCHANGED <<outcome, exit_status, terminated>>
    /\ UNCHANGED <<stdin, eof, now, start_time, sendLog, gotExpected, peerLeft,
                   arrived, gotQualifying, codecVars>>

\* Line 62 with the notification sent as a request, id=2.
SendInitializedAsRequest ==
    /\ pc = "send_initialized"
    /\ SendRequest(S_initialized, InitializedParams, JInt(2))
    /\ pc' = "send_didOpen"
    /\ UNCHANGED <<stdout, eof, resp, now, start_time, outcome, exit_status,
                   terminated, gotExpected, peerLeft, arrived,
                   gotQualifying, rstat, rexc, codecVars>>

\* Line 62
SendInitialized ==
    /\ pc = "send_initialized"
    /\ SendRequest(S_initialized, InitializedParams, JNull)
    /\ pc' = "send_didOpen"
    /\ UNCHANGED <<stdout, eof, resp, now, start_time, outcome, exit_status,
                   terminated, gotExpected, peerLeft, arrived,
                   gotQualifying, rstat, rexc, codecVars>>

\* Lines 65-73
SendDidOpen ==
    /\ pc = "send_didOpen"
    /\ SendRequest(S_didOpen, DidOpenParams, JNull)
    /\ pc' = "start"
    /\ UNCHANGED <<stdout, eof, resp, now, start_time, outcome, exit_status,
                   terminated, gotExpected, peerLeft, arrived,
                   gotQualifying, rstat, rexc, codecVars>>

\* Lines 76-77
StartWait ==
    /\ pc = "start"
    /\ start_time' = now
    /\ pc' = "loop"
    /\ UNCHANGED <<stdin, stdout, eof, resp, now, outcome, exit_status,
                   terminated, sendLog, gotExpected, peerLeft, arrived,
                   gotQualifying, rstat, rexc, codecVars>>

\* Line 78 as "while True": into the loop body whatever the clock says.
LoopEnterAlways ==
    /\ pc = "loop"
    /\ pc' = "wait_read"
    /\ UNCHANGED <<stdin, stdout, eof, resp, now, start_time, outcome,
                   exit_status, terminated, sendLog, gotExpected, peerLeft, arrived,
                   gotQualifying, rstat, rexc, codecVars>>

\* Line 78, the test holds: into the loop body.
LoopEnter ==
    /\ pc = "loop"
    /\ now - start_time < Timeout
    /\ pc' = "wait_read"
    /\ UNCHANGED <<stdin, stdout, eof, resp, now, start_time, outcome,
                   exit_status, terminated, sendLog, gotExpected, peerLeft, arrived,
                   gotQualifying, rstat, rexc, codecVars>>

\* Line 78, the test fails: lines 94-96.
TimeOut ==
    /\ pc = "loop"
    /\ ~(now - start_time < Timeout)
    /\ Finish("timeout", 1)
    /\ UNCHANGED <<stdin, stdout, eof, resp, now, start_time, sendLog,
                   gotExpected, peerLeft, arrived,
                   gotQualifying, rstat, rexc, codecVars>>

\* Lines 79-92 with a receive that gives up once the deadline has passed.
WaitReadInterrupted ==
    /\ pc = "wait_read"
    /\ IF now - start_time >= Timeout
       THEN /\ Finish("timeout", 1)
            /\ UNCHANGED <<stdout, resp, rstat, rexc, gotExpected, gotQualifying>>
       ELSE \E r \in {ReadResponse(stdout, eof)} :
            /\ r.st # "block"
            /\ stdout' = SubSeq(stdout, r.i, Len(stdout))
            /\ rstat' = r.st
            /\ rexc' = r.exc
            /\ gotExpected' =
                 (gotExpected \/ (r.st = "return" /\ IsExpectedNotification(r.v)))
            /\ gotQualifying' =
                 (gotQualifying \/ (r.st = "return" /\ IsQualifyingNotification(r.v)))
            /\ IF r.st = "raise"
               THEN Crash /\ UNCHANGED resp
               ELSE /\ resp' = r.v
                    /\ \E e \in {Evaluate(r.v)} :
                       CASE e = "continue" ->
                              /\ pc' = "loop"
                              /\ UNCHANGED <<outcome, exit_status, terminated>>
                         [] e = "success" -> Finish("success", 0)
                         [] e = "mismatch" -> Finish("mismatch", 1)
                         [] e = "raise" -> Crash
    /\ UNCHANGED <<stdin, eof, now, start_time, sendLog, peerLeft, arrived,
                   codecVars>>

\* Lines 79-92: one receive and what the loop body does with it.
WaitRead ==
    /\ pc = "wait_read"
    /\ \E r \in {ReadResponse(stdout, eof)} :
       /\ r.st # "block"
       /\ stdout' = SubSeq(stdout, r.i, Len(stdout))
       /\ rstat' = r.st
       /\ rexc' = r.exc
       /\ gotExpected' =
            (gotExpected \/ (r.st = "return" /\ IsExpectedNotification(r.v)))
       /\ gotQualifying' =
            (gotQualifying \/ (r.st = "return" /\ IsQualifyingNotification(r.v)))
       /\ IF r.st = "raise"
          THEN Crash /\ UNCHANGED resp
          ELSE /\ resp' = r.v
               /\ \E e \in {Evaluate(r.v)} :
                  CASE e = "continue" ->
                         /\ pc' = "loop"
                         /\ UNCHANGED <<outcome, exit_status, terminated>>
                    [] e = "success" -> Finish("success", 0)
                    [] e = "mismatch" -> Finish("mismatch", 1)
                    [] e = "raise" -> Crash
    /\ UNCHANGED <<stdin, eof, now, start_time, sendLog, peerLeft, arrived,
                   codecVars>>

\* The subprocess writes one frame to its output stream.
PeerWrite ==
    /\ pc # "done"
    /\ ~eof
    /\ peerLeft > 0
    /\ \E f \in PeerFrames :
          /\ stdout' = stdout \o f
          /\ arrived' = (arrived \/ f \in {F_expected, F_unexpected})
    /\ peerLeft' = peerLeft - 1
    /\ UNCHANGED <<pc, stdin, eof, resp, now, start_time, outcome, exit_status,
                   terminated, sendLog, gotExpected, gotQualifying, rstat, rexc,
                   codecVars>>

\* The subprocess closes its output stream (or exits).
PeerClose ==
    /\ pc # "done"
    /\ ~eof
    /\ eof' = TRUE
    /\ UNCHANGED <<pc, stdin, stdout, resp, now, start_time, outcome,
                   exit_status, terminated, sendLog, gotExpected, peerLeft, arrived,
                   gotQualifying, rstat, rexc, codecVars>>

\* Time passes.  The clock is first read at line 77: only what passes from
\* then on shows.
Tick ==
    /\ pc \in {"loop", "wait_read"}
    /\ now < start_time + Timeout + MaxOver
    /\ now' = now + 1
    /\ UNCHANGED <<pc, stdin, stdout, eof, resp, start_time, outcome,
                   exit_status, terminated, sendLog, gotExpected, peerLeft, arrived,
                   gotQualifying, rstat, rexc, codecVars>>

Main ==
    \/ SendInitialize
    \/ ReadInitialize
    \/ SendInitialized
    \/ SendDidOpen
    \/ StartWait
    \/ LoopEnter
    \/ TimeOut
    \/ WaitRead

Next == Main \/ PeerWrite \/ PeerClose \/ Tick

Spec == Init /\ [][Next]_vars

\* The session where the harness runs whenever it can and time passes; the
\* subprocess owes nothing: it may write, close, or stay silent for ever.
FairInit ==
    /\ pc = "send_initialize"
    /\ stdin = <<>>
    /\ stdout = <<>>
    /\ eof = FALSE
    /\ resp = JNull
    /\ now = Epoch
    /\ start_time = 0
    /\ outcome = "running"
    /\ exit_status = -1
    /\ terminated = FALSE
    /\ sendLog = <<>>
    /\ gotExpected = FALSE
    /\ peerLeft = MaxFairWrites
    /\ arrived = FALSE
    /\ gotQualifying = FALSE
    /\ fedLog = <<>>
    /\ cut = -1
    /\ nread = 0
    /\ rstat = "none"
    /\ rexc = ""

FairSpec == FairInit /\ [][Next]_vars /\ WF_vars(Main) /\ WF_vars(Tick)

---------------------------------------------------------------------------
(* The wait loop's verdicts *)

\* The diagnostics list of a diagnostics notification (<<>> for a value
\* that is none, or has no list).
DiagnosticsOf(x) ==
    IF /\ x.t = "obj" /\ HasKey(x, S_method)
       /\ Get(x, S_method) = JStr(S_publishDiagnostics)
       /\ HasKey(x, S_params) /\ Get(x, S_params).t = "obj"
       /\ HasKey(Get(x, S_params), S_diagnostics)
       /\ Get(Get(x, S_params), S_diagnostics).t = "arr"
    THEN Get(Get(x, S_params), S_diagnostics).v
    ELSE <<>>

HasDiagnostics(x) ==
    /\ x.t = "obj" /\ HasKey(x, S_method)
    /\ Get(x, S_method) = JStr(S_publishDiagnostics)
    /\ HasKey(x, S_params) /\ Get(x, S_params).t = "obj"
    /\ HasKey(Get(x, S_params), S_diagnostics)
    /\ Get(Get(x, S_params), S_diagnostics).t = "arr"

\* The entry d of a diagnostics list has a message, a text.
HasMessage(d) == d.t = "obj" /\ HasKey(d, S_message) /\ Get(d, S_message).t = "str"

\* C1: every step in which a receive of the wait loop returns a message
\* whose method is textDocument/publishDiagnostics does this: with an empty
\* diagnostics list the driver does not stop and goes back to the loop;
\* with a first entry whose message contains "Unknown word: Helllo" it
\* stops with the success outcome; with a first entry whose message does
\* not contain it, it stops with the content-mismatch outcome.
C1_Evaluation ==
    [][(pc = "wait_read" /\ pc' # "wait_read" /\ rstat' = "return"
           /\ HasDiagnostics(resp'))
       => LET d == DiagnosticsOf(resp') IN
          /\ (Len(d) = 0 =>
                 pc' = "loop" /\ outcome' = "running" /\ exit_status' = -1
                 /\ ~terminated')
          /\ (Len(d) > 0 /\ HasMessage(d[1])
                 /\ Contains(Get(d[1], S_message).v, S_expected) =>
                 pc' = "done" /\ outcome' = "success")
          /\ (Len(d) > 0 /\ HasMessage(d[1])
                 /\ ~Contains(Get(d[1], S_message).v, S_expected) =>
                 pc' = "done" /\ outcome' = "mismatch")]_vars

\* The wait loop has judged a notification whose first diagnostic is not
\* the expected one and whose second one is.
C1_Witness ==
    /\ pc = "done" /\ rstat = "return" /\ resp = M_unexpected
    /\ outcome = "mismatch"

\* C2 as stated: once 5 time units of the wait loop have passed and the
\* subprocess has written no diagnostics notification with a non-empty
\* list, the driver eventually stops with the timeout outcome and a
\* nonzero exit status.
C2_TimeoutAlways ==
    (pc \in {"loop", "wait_read"} /\ now - start_time >= Timeout /\ ~arrived)
        ~> (pc = "done" /\ outcome = "timeout" /\ exit_status # 0)

\* C2, amended: from the wait loop on, unless the driver stays for ever in
\* one receive that never returns, or a receive of the loop returns a
\* diagnostics notification with a non-empty list, the driver eventually
\* stops with exit status 1: with the timeout outcome, or with an uncaught
\* exception where a receive or the evaluation of a message raised.
C2_TimeoutUnlessBlocked ==
    [](pc = "loop" =>
         \/ <>[](pc = "wait_read")
         \/ <>gotQualifying
         \/ <>(pc = "done" /\ exit_status = 1
                  /\ (outcome = "timeout" \/ (outcome = "error" /\ ~terminated))))

\* The driver has timed out after a receive of the loop returned a
\* notification with an empty list, the stream still open.
C2_Witness ==
    /\ pc = "done" /\ outcome = "timeout" /\ exit_status = 1
    /\ resp = M_empty /\ ~eof /\ ~gotQualifying /\ now - start_time >= Timeout

\* C3 as stated: whenever the harness has stopped, a terminate request was
\* issued to the subprocess.
C3_TerminateOnEveryPath == pc = "done" => terminated

\* C4: when the harness has stopped its exit status is 0 or 1, and it is 0
\* exactly when a receive of the wait loop returned a diagnostics
\* notification with a non-empty list whose first message contains
\* "Unknown word: Helllo".
C4_ExitStatus ==
    pc = "done" => /\ exit_status \in {0, 1}
                   /\ (exit_status = 0 <=> gotExpected)

\* The harness has stopped with status 0 on the expected notification.
C4_Witness ==
    pc = "done" /\ exit_status = 0 /\ gotExpected /\ resp = M_expected

---------------------------------------------------------------------------
(* The transport alone: send_request and read_response called on streams   *)
(* that a peer connects, echoes, respells, cuts short and closes.          *)

\* How many calls of send_request the exercise makes at most.
MaxSends == 2

S_me == <<109, 233>>                                   \* m, e acute
S_tricky ==                  \* H, e acute, euro sign, U+1F600, ", \, line feed
    <<72, 233, 8364, 128512, 34, 92, 10>>
S_ContentType ==                                       \* Content-Type: utf-8
    <<67, 111, 110, 116, 101, 110, 116, 45, 84, 121, 112, 101, 58, 32, 117,
      116, 102, 45, 56>>

\* The arguments send_request is called with.
SendMethods == {S_initialize, S_me}
SendParams == {JObj(<<>>), InitializeParams, JObj(<<<<S_text, JStr(S_tricky)>>>>)}
SendIds == {JNull, JInt(0)}

\* The values a peer frames by itself: a bare number, a notification.
PeerValues == {JInt(12), M_empty}

\* The length of the header block of a frame f, blank line included.
HeaderLen(f) ==
    Min({k \in 4..Len(f) : SubSeq(f, k - 3, k) = CRLF \o CRLF})

\* A frame with the name of its first header line in lower or upper case.
LowerName(f) ==
    [k \in 1..Len(f) |->
        IF k <= Len(S_ContentLength) /\ f[k] \in 65..90 THEN f[k] + 32 ELSE f[k]]
UpperName(f) ==
    [k \in 1..Len(f) |->
        IF k <= Len(S_ContentLength) /\ f[k] \in 97..122 THEN f[k] - 32 ELSE f[k]]
\* A frame with one more header line, before or after its first one.
ExtraBefore(f) == S_ContentType \o CRLF \o f
ExtraAfter(f) ==
    SubSeq(f, 1, FindLF(f, 1)) \o S_ContentType \o CRLF
        \o SubSeq(f, FindLF(f, 1) + 1, Len(f))

Variants == {"lower", "upper", "before", "after"}
Respell(kind, f) ==
    CASE kind = "lower" -> LowerName(f)
      [] kind = "upper" -> UpperName(f)
      [] kind = "before" -> ExtraBefore(f)
      [] kind = "after" -> ExtraAfter(f)

Fed(msg, src, f) ==
    [msg |-> msg, src |-> src, hlen |-> HeaderLen(f), len |-> Len(f)]

AllEchoed == \A k \in 1..Len(fedLog) : fedLog[k].src = "echo"

CodecInit ==
    /\ pc = "codec"
    /\ stdin = <<>>
    /\ stdout = <<>>
    /\ eof = FALSE
    /\ resp = JNull
    /\ now = 0
    /\ start_time = 0
    /\ outcome = "running"
    /\ exit_status = -1
    /\ terminated = FALSE
    /\ sendLog = <<>>
    /\ gotExpected = FALSE
    /\ peerLeft = 0
    /\ arrived = FALSE
    /\ gotQualifying = FALSE
    /\ fedLog = <<>>
    /\ cut = -1
    /\ nread = 0
    /\ rstat = "none"
    /\ rexc = ""

\* One call of send_request.
Send(method, params, id) ==
    /\ pc = "codec"
    /\ Len(sendLog) < MaxSends
    /\ AllEchoed /\ cut = -1
    /\ SendRequest(method, params, id)
    /\ UNCHANGED <<pc, stdout, eof, resp, rstat, rexc, mainVars, codecVars>>

\* The peer hands the next frame written to the reader, byte for byte.
Loopback ==
    /\ pc = "codec"
    /\ ~eof /\ AllEchoed
    /\ Len(fedLog) < Len(sendLog)
    /\ \E e \in {sendLog[Len(fedLog) + 1]} :
       \E f \in {SubSeq(stdin, e.lo, e.hi)} :
          /\ stdout' = stdout \o f
          /\ fedLog' = Append(fedLog, Fed(Content(e.method, e.params, e.id), "echo", f))
    /\ UNCHANGED <<pc, stdin, eof, resp, rstat, rexc, sendLog, cut, nread, mainVars>>

\* The peer hands the only frame written to the reader with its header
\* block spelled another way.
LoopbackRespelled(kind) ==
    /\ pc = "codec"
    /\ ~eof /\ fedLog = <<>>
    /\ Len(sendLog) = 1
    /\ \E e \in {sendLog[1]} :
       \E f \in {Respell(kind, SubSeq(stdin, e.lo, e.hi))} :
          /\ stdout' = stdout \o f
          /\ fedLog' = Append(fedLog, Fed(Content(e.method, e.params, e.id), kind, f))
    /\ UNCHANGED <<pc, stdin, eof, resp, rstat, rexc, sendLog, cut, nread, mainVars>>

\* The peer frames a value of its own.
PeerSend(v) ==
    /\ pc = "codec"
    /\ ~eof /\ fedLog = <<>> /\ sendLog = <<>>
    /\ \E f \in {PeerFrame(Dumps(v))} :
          /\ stdout' = stdout \o f
          /\ fedLog' = Append(fedLog, Fed(v, "peer", f))
    /\ UNCHANGED <<pc, stdin, eof, resp, rstat, rexc, sendLog, cut, nread, mainVars>>

\* The stream ends after n bytes of its only frame, none of it read yet.
StreamCut ==
    /\ pc = "codec"
    /\ ~eof /\ cut = -1
    /\ Len(fedLog) = 1 /\ nread = 0 /\ Len(sendLog) <= 1
    /\ \E n \in 0..(Len(stdout) - 1) :
          /\ stdout' = SubSeq(stdout, 1, n)
          /\ cut' = n
    /\ eof' = TRUE
    /\ UNCHANGED <<pc, stdin, resp, rstat, rexc, sendLog, fedLog, nread, mainVars>>

\* The stream ends after the frames it carries.
StreamClose ==
    /\ pc = "codec"
    /\ ~eof
    /\ eof' = TRUE
    /\ UNCHANGED <<pc, stdin, stdout, resp, rstat, rexc, sendLog, codecVars, mainVars>>

\* One call of read_response that comes back.
Receive ==
    /\ pc = "codec"
    /\ nread <= Len(fedLog)
    /\ \E r \in {ReadResponse(stdout, eof)} :
       /\ r.st # "block"
       /\ stdout' = SubSeq(stdout, r.i, Len(stdout))
       /\ rstat' = r.st
       /\ rexc' = r.exc
       /\ resp' = IF r.st = "return" THEN r.v ELSE resp
    /\ nread' = nread + 1
    /\ UNCHANGED <<pc, stdin, eof, sendLog, fedLog, cut, mainVars>>

CodecNext ==
    \/ \E method \in SendMethods : \E params \in SendParams : \E id \in SendIds :
          Send(method, params, id)
    \/ Loopback
    \/ \E kind \in Variants : LoopbackRespelled(kind)
    \/ \E v \in PeerValues : PeerSend(v)
    \/ StreamCut
    \/ StreamClose
    \/ Receive

CodecSpec == CodecInit /\ [][CodecNext]_vars

---------------------------------------------------------------------------
(* The transport's contract *)

\* The bytes of the k-th call of send_request.
Written(k) == SubSeq(stdin, sendLog[k].lo, sendLog[k].hi)

\* The bytes of the frames fed from the k-th on.
RECURSIVE FedBytes(_, _)
FedBytes(log, k) == IF k > Len(log) THEN 0 ELSE log[k].len + FedBytes(log, k + 1)

\* C5: when the frames written by send_request reach read_response byte
\* for byte, its k-th call returns a message whose method and params are
\* those of the k-th call of send_request, whose id is the one given and is
\* absent where none was given, and it leaves unread exactly the frames
\* written after the k-th.
C5_RoundTrip ==
    (nread \in 1..Len(fedLog) /\ cut = -1 /\ AllEchoed) =>
        /\ rstat = "return"
        /\ resp.t = "obj"
        /\ HasKey(resp, S_method)
        /\ Get(resp, S_method) = JStr(sendLog[nread].method)
        /\ HasKey(resp, S_params)
        /\ Get(resp, S_params) = sendLog[nread].params
        /\ (sendLog[nread].id = JNull => ~HasKey(resp, S_id))
        /\ (sendLog[nread].id # JNull =>
               HasKey(resp, S_id) /\ Get(resp, S_id) = sendLog[nread].id)
        /\ Len(stdout) = FedBytes(fedLog, nread + 1)

\* The second of two frames has come back: a method and a text that are
\* not ASCII, no identifier.
C5_Witness ==
    /\ nread = 2 /\ Len(fedLog) = 2 /\ AllEchoed /\ cut = -1
    /\ sendLog[2].method = S_me /\ sendLog[2].id = JNull
    /\ sendLog[2].params = JObj(<<<<S_text, JStr(S_tricky)>>>>)
    /\ sendLog[1].id = JInt(0)
    /\ rstat = "return" /\ stdout = <<>>

\* f is one header line Content-Length: N, CR LF, the blank line CR LF, and
\* N bytes.
IsFrame(f) ==
    LET n == Len(S_ContentLength)
        lf == FindLF(f, 1)
    IN  /\ lf >= n + 5
        /\ SubSeq(f, 1, n + 2) = S_ContentLength \o <<58, 32>>
        /\ \A k \in (n + 3)..(lf - 2) : IsDigit(f[k])
        /\ f[lf - 1] = 13
        /\ Len(f) >= lf + 2
        /\ SubSeq(f, lf + 1, lf + 2) = CRLF
        /\ DigitsVal(f, n + 3, lf - 1, 0) = Len(f) - (lf + 2)

\* C6: the bytes written by every call of send_request are one header line
\* "Content-Length: N" with its CR LF, the blank line CR LF, and a body of
\* exactly N bytes.
C6_FrameShape == \A k \in 1..Len(sendLog) : IsFrame(Written(k))

\* A frame has been written whose method and params hold text that is not
\* ASCII.
C6_Witness ==
    \E k \in 1..Len(sendLog) :
        /\ sendLog[k].method = S_me
        /\ sendLog[k].params = JObj(<<<<S_text, JStr(S_tricky)>>>>)
        /\ sendLog[k].id = JInt(0)

\* C7 as stated, in its weakest reading: when the stream has ended inside
\* the body of its only frame, the call of read_response that meets the end
\* returns no value decoded from the part that came.
C7_NoPartialValue ==
    (Len(fedLog) = 1 /\ cut >= fedLog[1].hlen /\ nread = 1) =>
        ~(rstat = "return" /\ resp # JNull)

\* C8 as stated, in the case it singles out: when the stream has ended
\* after the header lines of its only frame, the length line among them,
\* and before the blank line, the call of read_response that meets the end
\* returns None.
C8_EndOfStreamInHeader ==
    (Len(fedLog) = 1 /\ cut = fedLog[1].hlen - 2 /\ nread = 1) =>
        (rstat = "return" /\ resp = JNull)

\* C9 as stated: a frame whose length line is spelled in another letter
\* case, or that carries one more header line, comes back as the message
\* of the frame as send_request wrote it.
C9_AnySpelling ==
    (Len(fedLog) = 1 /\ fedLog[1].src \in Variants /\ cut = -1 /\ nread = 1) =>
        (rstat = "return" /\ resp = fedLog[1].msg)

---------------------------------------------------------------------------
(* The order of a session *)

\* The call e of send_request is the k-th one main has to make.
IsOutbound(k, e) ==
    CASE k = 1 -> e.method = S_initialize /\ e.id = JInt(1)
      [] k = 2 -> e.method = S_initialized /\ e.id = JNull /\ e.params = JObj(<<>>)
      [] k = 3 -> e.method = S_didOpen /\ e.id = JNull
      [] OTHER -> FALSE

\* A step in which a receive of main comes back.
ReceiveStep == pc \in {"read_initialize", "wait_read"} /\ pc' # pc

\* C11: the calls of send_request, each adding one frame at the end of
\* proc.stdin, are at every moment the first ones of: initialize with id 1, initialized with no id and empty params,
\* textDocument/didOpen with no id, and nothing after them; a receive that
\* comes back while only initialize is sent is the first receive of the run,
\* and initialized is sent only after it has returned; every other receive
\* comes back with the three frames sent.
C11_Order ==
       [][/\ (Len(sendLog') # Len(sendLog) =>
                 /\ Len(sendLog') = Len(sendLog) + 1
                 /\ Len(sendLog') <= 3
                 /\ SubSeq(stdin', 1, Len(stdin)) = stdin
                 /\ SubSeq(sendLog', 1, Len(sendLog)) = sendLog
                 /\ IsOutbound(Len(sendLog) + 1, sendLog'[Len(sendLog) + 1])
                 /\ Len(stdin') = sendLog'[Len(sendLog) + 1].hi)
           /\ (ReceiveStep =>
                 \/ Len(sendLog) = 1 /\ rstat = "none"
                 \/ Len(sendLog) = 3)
           /\ ((Len(sendLog) = 1 /\ Len(sendLog') = 2) => rstat = "return")
           /\ ((Len(sendLog) < 3 /\ Len(sendLog') = 3) => pc' = "start")]_vars

\* The wait loop is in a receive, the three frames sent, the handshake
\* receive returned.
C11_Witness ==
    /\ pc = "wait_read" /\ Len(sendLog) = 3 /\ rstat = "return"
    /\ IsOutbound(3, sendLog[3])

\* A response, a notification of another method, or a diagnostics
\* notification with an empty list.
IsDiscardable(x) ==
    /\ x.t = "obj"
    /\ \/ ~HasKey(x, S_method)
       \/ Get(x, S_method) # JStr(S_publishDiagnostics)
       \/ HasDiagnostics(x) /\ Len(DiagnosticsOf(x)) = 0

\* C12: a receive of the wait loop that returns a diagnostics notification
\* with a non-empty list is the first to do so and stops the driver in that
\* step, with an outcome read off that message alone (success when its
\* first message contains the expected text, mismatch when it does not);
\* no receive follows it; a receive that returns a response, another
\* notification or an empty list leaves outcome, exit status and subprocess
\* as they were and goes back to the loop.
C12_FirstQualifyingDecides ==
    [][/\ (pc = "wait_read" /\ pc' # "wait_read" /\ rstat' = "return") =>
             IF IsQualifyingNotification(resp')
             THEN /\ ~gotQualifying
                  /\ pc' = "done"
                  /\ HasMessage(DiagnosticsOf(resp')[1]) =>
                        outcome' = IF IsExpectedNotification(resp')
                                   THEN "success" ELSE "mismatch"
             ELSE IsDiscardable(resp') =>
                     /\ pc' = "loop"
                     /\ UNCHANGED <<outcome, exit_status, terminated>>
       /\ gotQualifying => ~ReceiveStep]_vars

\* The subprocess wrote three frames and each was received: the handshake
\* receive took the first, the wait loop discarded the second and judged
\* the third, whose first diagnostic is not the expected one.
C12_Witness ==
    /\ pc = "done" /\ outcome = "mismatch" /\ resp = M_unexpected
    /\ peerLeft = 0 /\ stdout = <<>> /\ MaxPeerWrites >= 3

---------------------------------------------------------------------------
(* The transport's contract, continued *)

\* C13 as stated: when the stream holds whole frames (a header block with
\* its length line in any spelling, with or without another header line,
\* the blank line, a body of the declared length), the k-th call of
\* read_response that has come back returned the message of the k-th frame
\* and left unread exactly the frames after the k-th.
C13_Synchronised ==
    (cut = -1 /\ nread \in 1..Len(fedLog)) =>
        /\ rstat = "return"
        /\ resp = fedLog[nread].msg
        /\ Len(stdout) = FedBytes(fedLog, nread + 1)

---------------------------------------------------------------------------
(* Errors and ends of the stream in a session *)

\* The bytes b begin with the frame f.
StartsWith(b, f) == Len(b) >= Len(f) /\ SubSeq(b, 1, Len(f)) = f

\* C14: a receive of main that meets a frame whose body, of the declared
\* length, is not JSON consumes the frame and raises JSONDecodeError to
\* main; it returns nothing, and main stops there with the exception and
\* exit status 1 instead of going on with the loop.
C14_BadJsonSurfaces ==
    [][(ReceiveStep /\ StartsWith(stdout, F_badjson)) =>
          /\ rstat' = "raise" /\ rexc' = "JSONDecodeError"
          /\ resp' = resp
          /\ stdout' = SubSeq(stdout, Len(F_badjson) + 1, Len(stdout))
          /\ pc' = "done" /\ outcome' = "error" /\ exit_status' = 1]_vars

\* The wait loop has met such a frame, the last value received before it an
\* empty list.
C14_Witness ==
    /\ pc = "done" /\ outcome = "error" /\ exit_status = 1
    /\ rstat = "raise" /\ rexc = "JSONDecodeError"
    /\ Len(sendLog) = 3 /\ resp = M_empty

\* C15 as stated: a receive of the wait loop that meets the end of the
\* stream (the subprocess has closed its output and nothing is left to
\* read) stops the driver with a nonzero exit status; no further receive is
\* made against the closed stream.
C15_EndOfStreamStops ==
    [][(pc = "wait_read" /\ ReceiveStep /\ eof /\ stdout = <<>>) =>
          (pc' = "done" /\ exit_status' # 0)]_vars

\* C16: a receive of main that meets a header block ended by its blank
\* line and holding no length field returns None and consumes the header
\* block alone; in the wait loop the driver then goes back to the loop test
\* with outcome, exit status and subprocess as they were.
C16_NoLengthIsNoMessage ==
    [][(ReceiveStep /\ StartsWith(stdout, F_nolength)) =>
          /\ rstat' = "return" /\ resp' = JNull
          /\ stdout' = SubSeq(stdout, Len(F_nolength) + 1, Len(stdout))
          /\ pc = "wait_read" =>
                /\ pc' = "loop"
                /\ UNCHANGED <<outcome, exit_status, terminated, now>>]_vars

\* The wait loop is back at its test after the second of two frames, the
\* stream still open, came back as None.
C16_Witness ==
    /\ pc = "loop" /\ outcome = "running" /\ Len(sendLog) = 3
    /\ rstat = "return" /\ resp = JNull /\ ~eof
    /\ stdout = <<>> /\ peerLeft = MaxPeerWrites - 2

\* C17: the receive after the initialize request, when it returns, hands
\* main on to the initialized notification whatever the value is, with
\* outcome, exit status and subprocess untouched; and the outcome becomes
\* success or mismatch only in a receive of the wait loop, on the
\* notification that receive returns.
C17_HandshakeReplyDropped ==
    [][/\ (pc = "read_initialize" /\ pc' # pc /\ rstat' = "return") =>
             /\ pc' = "send_initialized"
             /\ UNCHANGED <<outcome, exit_status, terminated, gotExpected,
                            gotQualifying>>
       /\ (outcome' # outcome /\ outcome' \in {"success", "mismatch"}) =>
             /\ pc = "wait_read" /\ rstat' = "return"
             /\ stdout' # stdout
             /\ IsQualifyingNotification(resp')
             /\ (outcome' = "success") = IsExpectedNotification(resp')]_vars

\* The expected notification came as the handshake reply, nothing came
\* back in the wait loop, and the session timed out.
C17_Witness ==
    /\ pc = "done" /\ outcome = "timeout" /\ exit_status = 1
    /\ resp = M_expected /\ rstat = "return"
    /\ ~gotExpected /\ ~gotQualifying /\ arrived

\* Time elapsed since the wait loop read its start time.
Elapsed == now - start_time

\* C18: a receive of the wait loop is started only while less than Timeout
\* has elapsed, and at the loop test with Timeout or more elapsed main can
\* only time out; a receive under way is left only by coming back (never by
\* the timeout outcome), however much time has passed; and the notification
\* it returns is judged as at any other time.
C18_DeadlineBetweenReceives ==
    [][/\ (pc = "loop" /\ pc' = "wait_read") => Elapsed < Timeout
       /\ (pc = "loop" /\ pc' # pc /\ Elapsed >= Timeout) =>
             /\ pc' = "done" /\ outcome' = "timeout"
             /\ UNCHANGED <<stdout, resp, rstat>>
       /\ (pc = "wait_read" /\ pc' # pc) =>
             /\ outcome' # "timeout"
             /\ rstat' \in {"return", "raise"}
             /\ stdout' # stdout \/ (eof /\ stdout = <<>>)
       /\ (pc = "wait_read" /\ pc' # pc /\ Elapsed >= Timeout
             /\ rstat' = "return" /\ IsExpectedNotification(resp')) =>
                outcome' = "success" /\ exit_status' = 0
       /\ (pc = "wait_read" /\ pc' # pc /\ Elapsed >= Timeout
             /\ rstat' = "return" /\ resp' = M_unexpected) =>
                outcome' = "mismatch" /\ exit_status' = 1]_vars

\* Success reported with more than Timeout elapsed.
C18_Witness ==
    /\ pc = "done" /\ outcome = "success" /\ exit_status = 0
    /\ resp = M_expected /\ Elapsed > Timeout

===========================================================================
